---- MODULE Spec2Model ----
(***************************************************************************)
(* MuscuTracker persistence layer: DBManager over an SQLite file with the  *)
(* tables workouts, exercises and performances                             *)
(* (src/src/database/db_manager.py).                                       *)
(*                                                                         *)
(* Text values the engine orders (exercise names, stored dates) are        *)
(* sequences of character codes, compared the way SQLite's BINARY          *)
(* collation compares them.  Python values handed back to the caller are   *)
(* records tagged with their kind, so that None, [] and a row differ.      *)
(***************************************************************************)
EXTENDS Integers, Sequences, FiniteSets, TLC

VARIABLES con, tables, workouts, exercises, performances, ret

vars == <<con, tables, workouts, exercises, performances, ret>>

----------------------------------------------------------------------------
(* Bound of the model: how many rows the database file may hold. *)
MaxRows == 5

----------------------------------------------------------------------------
(* Python values *)
PyNone == [kind |-> "None"]
PyInt(n) == [kind |-> "int", value |-> n]
PyStr(s) == [kind |-> "str", value |-> s]
(* a float, held exactly as a number of thirtieths *)
PyFloat(n) == [kind |-> "float", thirtieths |-> n]
PyList(s) == [kind |-> "list", rows |-> s]
PyRow(r) == [kind |-> "Row", row |-> r]
PyRaise(e) == [kind |-> "raise", exc |-> e]

(* An SQL value that may be NULL: <<>> is NULL, <<v>> is the value v. *)
NULL == <<>>
Val(v) == <<v>>

----------------------------------------------------------------------------
(* Text: sequences of character codes *)
Dash == 45
Zero == 48

RECURSIVE TextLess(_, _)
(* a < b under the BINARY collation: bytewise, a proper prefix is smaller *)
TextLess(a, b) ==
    IF b = <<>> THEN FALSE
    ELSE IF a = <<>> THEN TRUE
    ELSE IF Head(a) # Head(b) THEN Head(a) < Head(b)
    ELSE TextLess(Tail(a), Tail(b))

TextLeq(a, b) == a = b \/ TextLess(a, b)

RECURSIVE Decimal(_)
(* the decimal digits of n >= 0, without padding *)
Decimal(n) ==
    IF n < 10 THEN <<Zero + n>>
    ELSE Decimal(n \div 10) \o <<Zero + (n % 10)>>

(* %m and %d: two digits, zero padded *)
Decimal2(n) == <<Zero + (n \div 10), Zero + (n % 10)>>

(* date.strftime("%Y-%m-%d"): the time of day is dropped *)
strftime(date) ==
    Decimal(date.year) \o <<Dash>> \o Decimal2(date.month) \o <<Dash>>
        \o Decimal2(date.day)

----------------------------------------------------------------------------
(* Inputs the callers draw from *)
Bench == <<66>>
bench == <<98>>
Blank == <<32>>
Names == {<<>>, Blank, Bench, bench}
Categories == {"push", "pull"}
Notes == {"", "tip"}
Jan10 == [year |-> 2024, month |-> 1, day |-> 10, hour |-> 18]
Jan01 == [year |-> 2024, month |-> 1, day |-> 1, hour |-> 7]
DateTimes == {Jan10, Jan01}
(* the rpe argument: absent, on the scale, off the scale *)
RpeIn == {NULL, Val(8), Val(11)}

Rows == Len(workouts) + Len(exercises) + Len(performances)

----------------------------------------------------------------------------
(* State after DBManager(db_name) on a fresh file: the connection either   *)
(* opened, or sql.connect raised sql.Error, which __init__ swallows,       *)
(* leaving the object without the attribute con.                           *)
Init ==
    /\ con \in {"open", "failed"}
    /\ tables = FALSE
    /\ workouts = <<>>
    /\ exercises = <<>>
    /\ performances = <<>>
    /\ ret = [op |-> "__init__", args |-> <<>>, result |-> PyNone]

(* PRAGMA foreign_keys = ON, set once in __init__ *)
ForeignKeysLeftOff == FALSE
ForeignKeysOn == TRUE

Returned(op, args, result) == ret' = [op |-> op, args |-> args, result |-> result]

(* self.con read when __init__ never bound it: AttributeError, which no    *)
(* handler of the class catches (they catch sql.Error only).               *)
NoConnection(op, args) ==
    /\ con = "failed"
    /\ Returned(op, args, PyRaise("AttributeError"))
    /\ UNCHANGED <<con, tables, workouts, exercises, performances>>

----------------------------------------------------------------------------
(* the same statements as DROP TABLE IF EXISTS followed by CREATE TABLE:    *)
(* every call starts the three tables afresh                               *)
create_tables_recreating ==
    \/ NoConnection("create_tables", <<>>)
    \/ /\ con = "open"
       /\ tables' = TRUE
       /\ workouts' = <<>>
       /\ exercises' = <<>>
       /\ performances' = <<>>
       /\ Returned("create_tables", <<>>, PyNone)
       /\ UNCHANGED con

(* create_tables: CREATE TABLE IF NOT EXISTS for the three tables *)
create_tables ==
    \/ NoConnection("create_tables", <<>>)
    \/ /\ con = "open"
       /\ tables' = TRUE
       /\ Returned("create_tables", <<>>, PyNone)
       /\ UNCHANGED <<con, workouts, exercises, performances>>

(* add_workout(date) *)
add_workout(date) ==
    \/ NoConnection("add_workout", <<date>>)
    \/ /\ con = "open"
       /\ ~tables
       /\ Returned("add_workout", <<date>>, PyInt(-1))
       /\ UNCHANGED <<con, tables, workouts, exercises, performances>>
    \/ /\ con = "open"
       /\ tables
       /\ Rows < MaxRows
       /\ workouts' = Append(workouts,
              [id |-> Len(workouts) + 1, date |-> strftime(date)])
       /\ Returned("add_workout", <<date>>, PyInt(Len(workouts) + 1))
       /\ UNCHANGED <<con, tables, exercises, performances>>

(* exercises.name is UNIQUE: the insert of a stored name is rejected *)
NoUniqueConstraint(name) == FALSE
UniqueViolation(name) ==
    \E i \in 1 .. Len(exercises) : exercises[i].name = name

(* if notes == "": notes = None *)
StoredNotesRaw(notes) == Val(notes)
StoredNotes(notes) == IF notes = "" THEN NULL ELSE Val(notes)

(* add_exercise(name, category, notes) *)
add_exercise(name, category, notes) ==
    LET args == <<name, category, notes>>
        stored == StoredNotes(notes)
    IN  \/ NoConnection("add_exercise", args)
        \/ /\ con = "open"
           /\ ~tables \/ UniqueViolation(name)
           /\ Returned("add_exercise", args, PyInt(-1))
           /\ UNCHANGED <<con, tables, workouts, exercises, performances>>
        \/ /\ con = "open"
           /\ tables
           /\ ~UniqueViolation(name)
           /\ Rows < MaxRows
           /\ exercises' = Append(exercises,
                  [id |-> Len(exercises) + 1, name |-> name,
                   category |-> category, notes |-> stored])
           /\ Returned("add_exercise", args, PyInt(Len(exercises) + 1))
           /\ UNCHANGED <<con, tables, workouts, performances>>

(* the checks add_performance makes before it touches the connection *)
ArgumentsRejected(workout_id, exercise_id, reps, weight) ==
    \/ reps <= 0
    \/ weight <= 0
    \/ workout_id <= 0 \/ exercise_id <= 0

(* FOREIGN KEY (workout_id) REFERENCES workouts(id),                       *)
(* FOREIGN KEY (exercise_id) REFERENCES exercises(id)                      *)
ForeignKeyViolation(workout_id, exercise_id) ==
    /\ ForeignKeysOn
    /\ \/ \A i \in 1 .. Len(workouts) : workouts[i].id # workout_id
       \/ \A i \in 1 .. Len(exercises) : exercises[i].id # exercise_id

(* add_performance(workout_id, exercise_id, reps, weight, rpe) *)
add_performance(workout_id, exercise_id, reps, weight, rpe) ==
    LET args == <<workout_id, exercise_id, reps, weight, rpe>>
    IN  \/ /\ ArgumentsRejected(workout_id, exercise_id, reps, weight)
           /\ Returned("add_performance", args, PyInt(-1))
           /\ UNCHANGED <<con, tables, workouts, exercises, performances>>
        \/ /\ ~ArgumentsRejected(workout_id, exercise_id, reps, weight)
           /\ NoConnection("add_performance", args)
        \/ /\ ~ArgumentsRejected(workout_id, exercise_id, reps, weight)
           /\ con = "open"
           /\ ~tables \/ ForeignKeyViolation(workout_id, exercise_id)
           /\ Returned("add_performance", args, PyInt(-1))
           /\ UNCHANGED <<con, tables, workouts, exercises, performances>>
        \/ /\ ~ArgumentsRejected(workout_id, exercise_id, reps, weight)
           /\ con = "open"
           /\ tables
           /\ ~ForeignKeyViolation(workout_id, exercise_id)
           /\ Rows < MaxRows
           /\ performances' = Append(performances,
                  [id |-> Len(performances) + 1, workout_id |-> workout_id,
                   exercise_id |-> exercise_id, reps |-> reps,
                   weight |-> weight, rpe |-> rpe])
           /\ Returned("add_performance", args, PyInt(Len(performances) + 1))
           /\ UNCHANGED <<con, tables, workouts, exercises>>

----------------------------------------------------------------------------
(* What the engine's SELECT statements compute *)

RECURSIVE OrderBy(_, _)
(* ORDER BY: the listings of the rows S in which no row comes after one it *)
(* precedes, precedes being the set of pairs <<x, y>> of rows with the key *)
(* of x sorting before the key of y; the order among rows of equal keys is *)
(* the engine's choice                                                     *)
OrderBy(S, precedes) ==
    IF S = {} THEN {<<>>}
    ELSE UNION { { <<x>> \o s : s \in OrderBy(S \ {x}, precedes) } :
                 x \in { x \in S : \A y \in S : <<y, x>> \notin precedes } }

(* LIMIT n *)
Limit(s, n) == [k \in 1 .. (IF Len(s) < n THEN Len(s) ELSE n) |-> s[k]]

(* cursor.fetchall() and cursor.fetchone() over the listing s of rows *)
fetchallOrNone(s) == IF s = <<>> THEN PyNone ELSE PyList(s)
fetchall(s) == PyList(s)
fetchone(s) == IF s = <<>> THEN PyNone ELSE PyRow(s[1])

(* the value every read operation returns from its except sql.Error branch *)
OnError == PyNone

(* a read operation: op(args) answers with one of the values in results    *)
(* when the engine runs the query, and with OnError when it reports        *)
(* "no such table"                                                         *)
Read(op, args, results) ==
    \/ NoConnection(op, args)
    \/ /\ con = "open"
       /\ ~tables
       /\ Returned(op, args, OnError)
       /\ UNCHANGED <<con, tables, workouts, exercises, performances>>
    \/ /\ con = "open"
       /\ tables
       /\ \E r \in results : Returned(op, args, r)
       /\ UNCHANGED <<con, tables, workouts, exercises, performances>>

(* the same query ordered ORDER BY date ASC: oldest workout first           *)
WorkoutsByDateAsc ==
    LET S == 1 .. Len(workouts)
        earlier == { p \in S \X S :
                       TextLess(workouts[p[1]].date, workouts[p[2]].date) }
    IN  { [k \in S |-> workouts[s[k]]] : s \in OrderBy(S, earlier) }

(* SELECT * FROM workouts ORDER BY date DESC *)
WorkoutsByDateDesc ==
    LET S == 1 .. Len(workouts)
        later == { p \in S \X S :
                     TextLess(workouts[p[2]].date, workouts[p[1]].date) }
    IN  { [k \in S |-> workouts[s[k]]] : s \in OrderBy(S, later) }

get_workouts ==
    Read("get_workouts", <<>>, { fetchall(s) : s \in WorkoutsByDateDesc })

(* ... LIMIT 1 *)
get_last_workout ==
    Read("get_last_workout", <<>>,
         { fetchone(Limit(s, 1)) : s \in WorkoutsByDateDesc })

(* SELECT * FROM exercises [WHERE category = ?] ORDER BY name ASC;         *)
(* the filter applies when the argument is truthy                          *)
ExercisesByName(category) ==
    LET filtered == category # NULL /\ category # Val("")
        S == { i \in 1 .. Len(exercises) :
                 filtered => exercises[i].category = category[1] }
        before == { p \in S \X S :
                      TextLess(exercises[p[1]].name, exercises[p[2]].name) }
    IN  { [k \in 1 .. Cardinality(S) |-> exercises[s[k]]] :
            s \in OrderBy(S, before) }

get_exercises(category) ==
    Read("get_exercises", <<category>>,
         { fetchall(s) : s \in ExercisesByName(category) })

(* SELECT category FROM exercises WHERE name = ? *)
get_exercise_category(name) ==
    LET S == { i \in 1 .. Len(exercises) : exercises[i].name = name }
    IN  Read("get_exercise_category", <<name>>,
             IF S = {} THEN {PyNone}
             ELSE { PyStr(exercises[i].category) : i \in S })

(* performances p JOIN workouts w ON p.workout_id = w.id                   *)
(*                JOIN exercises e ON p.exercise_id = e.id WHERE e.name = ? *)
Joined(name) ==
    { t \in (1 .. Len(performances)) \X (1 .. Len(workouts))
              \X (1 .. Len(exercises)) :
        /\ performances[t[1]].workout_id = workouts[t[2]].id
        /\ performances[t[1]].exercise_id = exercises[t[3]].id
        /\ exercises[t[3]].name = name }

(* SELECT p.id, w.date, e.name, p.reps, p.weight, p.rpe ... *)
HistoryRow(t) ==
    [id |-> performances[t[1]].id, date |-> workouts[t[2]].date,
     name |-> exercises[t[3]].name, reps |-> performances[t[1]].reps,
     weight |-> performances[t[1]].weight, rpe |-> performances[t[1]].rpe]

(* the same rows without the ORDER BY: in rowid order *)
HistoryUnordered(name) ==
    LET S == Joined(name)
        earlier == { p \in S \X S : p[1][1] < p[2][1] }
    IN  { [k \in 1 .. Cardinality(S) |-> HistoryRow(s[k])] :
            s \in OrderBy(S, earlier) }

(* ... ORDER BY w.date ASC *)
History(name) ==
    LET S == Joined(name)
        earlier == { p \in S \X S :
                       TextLess(workouts[p[1][2]].date, workouts[p[2][2]].date) }
    IN  { [k \in 1 .. Cardinality(S) |-> HistoryRow(s[k])] :
            s \in OrderBy(S, earlier) }

get_exercise_history(name) ==
    Read("get_exercise_history", <<name>>,
         { fetchall(s) : s \in History(name) })

(* SELECT p.weight, p.reps, p.rpe, w.date ... *)
LiftRow(t) ==
    [weight |-> performances[t[1]].weight, reps |-> performances[t[1]].reps,
     rpe |-> performances[t[1]].rpe, date |-> workouts[t[2]].date]

(* ... ORDER BY p.weight DESC LIMIT 1 *)
BestLiftByWeightOnly(name) ==
    LET S == Joined(name)
        better == { p \in S \X S :
                      performances[p[1][1]].weight > performances[p[2][1]].weight }
    IN  { Limit([k \in 1 .. Cardinality(S) |-> LiftRow(s[k])], 1) :
            s \in OrderBy(S, better) }

(* ... ORDER BY p.weight DESC, p.reps DESC LIMIT 1 *)
BestLift(name) ==
    LET S == Joined(name)
        heavier(a, b) ==
            \/ performances[a].weight > performances[b].weight
            \/ /\ performances[a].weight = performances[b].weight
               /\ performances[a].reps > performances[b].reps
        better == { p \in S \X S : heavier(p[1][1], p[2][1]) }
    IN  { Limit([k \in 1 .. Cardinality(S) |-> LiftRow(s[k])], 1) :
            s \in OrderBy(S, better) }

get_exercise_best_lift(name) ==
    Read("get_exercise_best_lift", <<name>>,
         { fetchone(s) : s \in BestLift(name) })

(* p.weight * (1 + p.reps / 30), the division being the integer one *)
EpleyIntegerDivision(weight, reps) == weight * 30 * (1 + reps \div 30)

(* p.weight * (1 + p.reps / 30.0), in thirtieths *)
Epley(weight, reps) == weight * (30 + reps)

(* SELECT MAX(p.weight * (1 + p.reps / 30.0)) AS estimated_1RM             *)
(* FROM performances p JOIN exercises e ON p.exercise_id = e.id            *)
(* WHERE e.name = ?: one row, whose column is NULL over no rows            *)
Best1RM(name) ==
    LET S == { t \in (1 .. Len(performances)) \X (1 .. Len(exercises)) :
                 /\ performances[t[1]].exercise_id = exercises[t[2]].id
                 /\ exercises[t[2]].name = name }
        est(t) == Epley(performances[t[1]].weight, performances[t[1]].reps)
    IN  IF S = {} THEN NULL
        ELSE Val(CHOOSE m \in { est(t) : t \in S } :
                   \A t \in S : est(t) <= m)

get_exercise_best_1rm(name) ==
    Read("get_exercise_best_1rm", <<name>>,
         { IF Best1RM(name) = NULL THEN PyNone
           ELSE PyFloat(Best1RM(name)[1]) })

----------------------------------------------------------------------------
(* The write operations, called with well-formed and malformed arguments,  *)
(* with ids of stored rows, the id 0 and the next id not yet assigned      *)
NextWrites ==
    \/ create_tables
    \/ add_workout(Jan01)
    \/ add_exercise(Bench, "push", "")
    \/ \E workout_id \in 0 .. Len(workouts) + 1,
          exercise_id \in 0 .. Len(exercises) + 1,
          reps \in {0, 5}, weight \in {0, 100}, rpe \in RpeIn :
          add_performance(workout_id, exercise_id, reps, weight, rpe)

SpecWrites == Init /\ [][NextWrites]_vars

(* The exercises table alone: add_exercise with every kind of name, and    *)
(* the two reads of the table                                              *)
NextExercises ==
    \/ create_tables
    \/ \E name \in Names, category \in Categories, notes \in Notes :
          add_exercise(name, category, notes)
    \/ \E category \in {NULL, Val("push")} : get_exercises(category)
    \/ \E name \in Names : get_exercise_category(name)

SpecExercises == Init /\ [][NextExercises]_vars

(* Every read of DBManager, over stores of few different rows *)
NextReads ==
    \/ create_tables
    \/ \E date \in DateTimes : add_workout(date)
    \/ add_exercise(Bench, "push", "")
    \/ \E reps \in {0, 5} : add_performance(1, 1, reps, 100, NULL)
    \/ get_workouts
    \/ get_last_workout
    \/ \E category \in {NULL, Val("push"), Val("pull")} : get_exercises(category)
    \/ \E name \in {Bench, bench} : get_exercise_category(name)
    \/ \E name \in {Bench, bench} : get_exercise_history(name)
    \/ \E name \in {Bench, bench} : get_exercise_best_lift(name)
    \/ \E name \in {Bench, bench} : get_exercise_best_1rm(name)

SpecReads == Init /\ [][NextReads]_vars

(* The performances and the reads over them: the writes called with        *)
(* well-formed arguments and ids of stored rows and, once, with a          *)
(* malformed argument                                                      *)
Next ==
    \/ create_tables
    \/ \E date \in DateTimes : add_workout(date)
    \/ \E name \in {Bench, bench} : add_exercise(name, "push", "")
    \/ \E workout_id \in 1 .. Len(workouts), exercise_id \in 1 .. Len(exercises),
          reps \in {5, 10}, weight \in {90, 100}, rpe \in {NULL, Val(8)} :
          add_performance(workout_id, exercise_id, reps, weight, rpe)
    \/ \E reps \in {0, 5} : add_performance(1, 1, reps, 100, NULL)
    \/ \E name \in {Bench, bench} : get_exercise_history(name)
    \/ \E name \in {Bench, bench} : get_exercise_best_lift(name)
    \/ \E name \in {Bench, bench} : get_exercise_best_1rm(name)

Spec == Init /\ [][Next]_vars

----------------------------------------------------------------------------
(* Vocabulary of the properties *)
Writes == {"add_workout", "add_exercise", "add_performance"}
ListReads == {"get_workouts", "get_exercises", "get_exercise_history"}
RowReads ==
    {"get_last_workout", "get_exercise_category", "get_exercise_best_lift",
     "get_exercise_best_1rm"}

Failed == PyInt(-1)
WorkoutStored(id) == \E i \in 1 .. Len(workouts) : workouts[i].id = id
ExerciseStored(id) == \E i \in 1 .. Len(exercises) : exercises[i].id = id
NameStored(name) == \E i \in 1 .. Len(exercises) : exercises[i].name = name
(* empty, or made of spaces only *)
IsBlank(name) == \A i \in 1 .. Len(name) : name[i] = 32

----------------------------------------------------------------------------
(* C1: no two rows of exercises have the same name, and an add_exercise    *)
(* call with the name of a stored exercise returns -1 and leaves the       *)
(* exercises table, the stored row included, as it was.                    *)
UniqueNames ==
    \A i, j \in 1 .. Len(exercises) :
        i # j => exercises[i].name # exercises[j].name

C1_DuplicateRejected ==
    (ret'.op = "add_exercise" /\ NameStored(ret'.args[1]))
        => (ret'.result = Failed /\ exercises' = exercises)

C1_Theorem == []UniqueNames /\ [][C1_DuplicateRejected]_vars

(* a call repeating a stored name with another category has returned -1 *)
C1_Witness ==
    /\ ret.op = "add_exercise"
    /\ ret.result = Failed
    /\ \E i \in 1 .. Len(exercises) :
          /\ exercises[i].name = ret.args[1]
          /\ exercises[i].category # ret.args[2]

----------------------------------------------------------------------------
(* C2: on an open store, add_performance with a workout_id that is not the *)
(* id of a stored workout, or an exercise_id that is not the id of a       *)
(* stored exercise, returns -1; it inserts no row; and every row of        *)
(* performances references a stored workout and a stored exercise.         *)
ReferencesHold ==
    \A i \in 1 .. Len(performances) :
        /\ WorkoutStored(performances[i].workout_id)
        /\ ExerciseStored(performances[i].exercise_id)

C2_DanglingRejected ==
    ( /\ ret'.op = "add_performance"
      /\ ~WorkoutStored(ret'.args[1]) \/ ~ExerciseStored(ret'.args[2]) )
        => /\ performances' = performances
           /\ con = "open" => ret'.result = Failed

C2_Theorem == []ReferencesHold /\ [][C2_DanglingRejected]_vars

(* a well-formed call naming a stored workout and an exercise id that no   *)
(* row has yet has returned -1                                             *)
C2_Witness ==
    /\ ret.op = "add_performance"
    /\ ret.result = Failed
    /\ ret.args[3] > 0 /\ ret.args[4] > 0
    /\ WorkoutStored(ret.args[1])
    /\ ret.args[2] > 0 /\ ~ExerciseStored(ret.args[2])

----------------------------------------------------------------------------
(* C3: on an open store, add_performance with reps <= 0, weight <= 0,      *)
(* workout_id <= 0, exercise_id <= 0, or an rpe supplied outside [1,10],   *)
(* returns -1 and leaves the performances table unchanged.                 *)
RpeOffScale(rpe) == rpe # NULL /\ (rpe[1] < 1 \/ rpe[1] > 10)

C3_Claim ==
    [][ ( /\ con = "open"
          /\ ret'.op = "add_performance"
          /\ \/ ret'.args[3] <= 0
             \/ ret'.args[4] <= 0
             \/ ret'.args[1] <= 0
             \/ ret'.args[2] <= 0
             \/ RpeOffScale(ret'.args[5]) )
        => (ret'.result = Failed /\ performances' = performances) ]_vars

----------------------------------------------------------------------------
(* C4: on an open store, add_exercise with an empty or whitespace-only     *)
(* name returns a failure indicator and inserts nothing, so no row with    *)
(* such a name is ever stored.                                             *)
C4_Claim ==
    [][ (con = "open" /\ ret'.op = "add_exercise" /\ IsBlank(ret'.args[1]))
        => /\ ret'.result = Failed
           /\ exercises' = exercises
           /\ \A i \in 1 .. Len(exercises') : ~IsBlank(exercises'[i].name) ]_vars

----------------------------------------------------------------------------
(* C5: a write operation never ends in an unhandled exception, whatever    *)
(* the state of the store, the one left by a failed connection attempt     *)
(* included; a write that fails returns -1 and changes no table.           *)
C5_Claim ==
    [][ ret'.op \in Writes
        => /\ ret'.result.kind # "raise"
           /\ ret'.result = Failed
                => <<workouts, exercises, performances>>' =
                       <<workouts, exercises, performances>> ]_vars

----------------------------------------------------------------------------
(* What a read is asked about *)

(* the performances whose exercise has exactly this name *)
PerformancesOf(name) ==
    { i \in 1 .. Len(performances) :
        \E e \in 1 .. Len(exercises) :
            /\ exercises[e].id = performances[i].exercise_id
            /\ exercises[e].name = name }

(* the stored date of the workout a performance belongs to *)
DateOf(i) ==
    LET w == CHOOSE w \in 1 .. Len(workouts) :
                 workouts[w].id = performances[i].workout_id
    IN  workouts[w].date

(* the query of a read matches no row *)
NoRows(op, args) ==
    CASE op \in {"get_workouts", "get_last_workout"} -> workouts = <<>>
      [] op = "get_exercises" ->
            \A i \in 1 .. Len(exercises) :
                /\ args[1] # NULL /\ args[1] # Val("")
                /\ exercises[i].category # args[1][1]
      [] op = "get_exercise_category" -> ~NameStored(args[1])
      [] OTHER -> PerformancesOf(args[1]) = {}

----------------------------------------------------------------------------
(* C6 as stated: for each of the seven reads, the value returned when the  *)
(* query runs and matches no row differs from the value returned when the  *)
(* engine reports a failure.                                               *)
C6_Claim ==
    [][ ( /\ ret'.op \in ListReads \cup RowReads
          /\ con = "open" /\ tables
          /\ NoRows(ret'.op, ret'.args) )
        => ret'.result # OnError ]_vars

(* C6 as amended: the engine's failure is answered with None by every      *)
(* read; a query that matches no row is answered with the empty list by    *)
(* get_workouts, get_exercises and get_exercise_history, which differs     *)
(* from None, and with None by get_last_workout, get_exercise_category,    *)
(* get_exercise_best_lift and get_exercise_best_1rm.                       *)
C6_ReadOutcomes ==
    (ret'.op \in ListReads \cup RowReads /\ con = "open")
        => /\ ~tables => ret'.result = PyNone
           /\ (tables /\ NoRows(ret'.op, ret'.args))
                => IF ret'.op \in ListReads
                   THEN ret'.result = PyList(<<>>) /\ ret'.result # PyNone
                   ELSE ret'.result = PyNone

C6_Theorem == [][C6_ReadOutcomes]_vars

(* a list read has answered a query that matched nothing *)
C6_Witness ==
    /\ ret.op \in ListReads
    /\ con = "open" /\ tables
    /\ NoRows(ret.op, ret.args)
    /\ ret.result = PyList(<<>>)

----------------------------------------------------------------------------
(* C7: on an open store, get_exercise_best_lift(name) returns None exactly *)
(* when no performance exists for the name; otherwise it returns weight,   *)
(* reps, rpe and workout date of one performance of that exercise whose    *)
(* weight is the maximum and whose reps is the maximum among the           *)
(* performances of that maximum weight.                                    *)
IsBestLift(i, name) ==
    /\ i \in PerformancesOf(name)
    /\ \A j \in PerformancesOf(name) :
          /\ performances[j].weight <= performances[i].weight
          /\ performances[j].weight = performances[i].weight
                => performances[j].reps <= performances[i].reps

C7_BestLift ==
    (ret'.op = "get_exercise_best_lift" /\ con = "open")
        => LET name == ret'.args[1]
           IN  /\ ret'.result = PyNone <=> PerformancesOf(name) = {}
               /\ PerformancesOf(name) # {}
                    => \E i \in 1 .. Len(performances) :
                          /\ IsBestLift(i, name)
                          /\ ret'.result =
                                PyRow([weight |-> performances[i].weight,
                                       reps |-> performances[i].reps,
                                       rpe |-> performances[i].rpe,
                                       date |-> DateOf(i)])

C7_Theorem == [][C7_BestLift]_vars

(* the best lift was asked for an exercise with two performances of the    *)
(* maximum weight and different reps, and one of a smaller weight or       *)
(* another rpe or date                                                     *)
C7_Witness ==
    /\ ret.op = "get_exercise_best_lift"
    /\ ret.result.kind = "Row"
    /\ \E i, j \in PerformancesOf(ret.args[1]) :
          /\ performances[i].weight = ret.result.row.weight
          /\ performances[j].weight = ret.result.row.weight
          /\ performances[i].reps = ret.result.row.reps
          /\ performances[j].reps < performances[i].reps
          /\ performances[j].rpe # performances[i].rpe

----------------------------------------------------------------------------
(* C8: on an open store, get_exercise_best_1rm(name) returns None when no  *)
(* performance exists for the name (the exercise itself may be missing),   *)
(* and otherwise the maximum over the performances of that exercise of     *)
(* weight * (30 + reps) / 30; the maximum need not be the estimate of the  *)
(* row get_exercise_best_lift returns.                                     *)
C8_Best1RM ==
    (ret'.op = "get_exercise_best_1rm" /\ con = "open")
        => LET S == PerformancesOf(ret'.args[1])
               thirtieths(i) == performances[i].weight * (30 + performances[i].reps)
           IN  IF S = {} THEN ret'.result = PyNone
               ELSE /\ ret'.result.kind = "float"
                    /\ \E i \in S : ret'.result.thirtieths = thirtieths(i)
                    /\ \A i \in S : ret'.result.thirtieths >= thirtieths(i)

C8_Theorem == [][C8_Best1RM]_vars

(* the best estimate was asked for an exercise whose best lift has a       *)
(* smaller estimate than another of its performances                       *)
C8_Witness ==
    /\ ret.op = "get_exercise_best_1rm"
    /\ ret.result.kind = "float"
    /\ \E i \in PerformancesOf(ret.args[1]) :
          /\ IsBestLift(i, ret.args[1])
          /\ performances[i].weight * (30 + performances[i].reps)
                < ret.result.thirtieths

----------------------------------------------------------------------------
(* Reading a stored date back: the day it denotes, as a number that grows  *)
(* with the calendar                                                       *)
RECURSIVE Number(_)
Number(digits) ==
    IF digits = <<>> THEN 0
    ELSE 10 * Number(SubSeq(digits, 1, Len(digits) - 1))
            + (digits[Len(digits)] - Zero)

DayNumber(text) ==
    LET n == Len(text)
    IN  (Number(SubSeq(text, 1, n - 6)) * 100
            + Number(SubSeq(text, n - 4, n - 3))) * 100
        + Number(SubSeq(text, n - 1, n))

(* C9: on an open store with its tables, get_exercise_history(name)        *)
(* returns a list holding exactly the performances whose exercise has      *)
(* that name, each once and none of another exercise, each with the date   *)
(* of its own workout, in non-decreasing order of that date whatever the   *)
(* order of insertion; the list is empty when nothing matches.             *)
C9_History ==
    (ret'.op = "get_exercise_history" /\ con = "open" /\ tables)
        => LET name == ret'.args[1]
               S == PerformancesOf(name)
               rows == ret'.result.rows
           IN  /\ ret'.result.kind = "list"
               /\ Len(rows) = Cardinality(S)
               /\ \A i \in S : \E k \in 1 .. Len(rows) :
                     rows[k] = [id |-> performances[i].id, date |-> DateOf(i),
                                name |-> name, reps |-> performances[i].reps,
                                weight |-> performances[i].weight,
                                rpe |-> performances[i].rpe]
               /\ \A k, l \in 1 .. Len(rows) :
                     k < l => DayNumber(rows[k].date) <= DayNumber(rows[l].date)

C9_Theorem == [][C9_History]_vars

(* a history of two performances lists the one inserted last first,        *)
(* because its workout is the earlier one                                  *)
C9_Witness ==
    /\ ret.op = "get_exercise_history"
    /\ ret.result.kind = "list"
    /\ Len(ret.result.rows) = 2
    /\ ret.result.rows[1].id > ret.result.rows[2].id
    /\ DayNumber(ret.result.rows[1].date) < DayNumber(ret.result.rows[2].date)

----------------------------------------------------------------------------
(* C10: a successful add_exercise(name, category, notes) appends one row   *)
(* with that name, that category and those notes (empty notes as NULL) and *)
(* leaves the stored rows as they were; get_exercises() on an open store   *)
(* with its tables returns every stored row once, by name ascending.  So   *)
(* the listing that follows a successful add holds exactly one row of the  *)
(* new name, as supplied, and every earlier row unchanged.                 *)
C10_AddThenStored ==
    (ret'.op = "add_exercise" /\ ret'.result # Failed /\ ret'.result.kind = "int")
        => /\ ~NameStored(ret'.args[1])
           /\ exercises' = Append(exercises,
                  [id |-> ret'.result.value, name |-> ret'.args[1],
                   category |-> ret'.args[2],
                   notes |-> IF ret'.args[3] = "" THEN NULL
                             ELSE Val(ret'.args[3])])

C10_Listed ==
    (ret'.op = "get_exercises" /\ ret'.args = <<NULL>> /\ con = "open" /\ tables)
        => LET rows == ret'.result.rows
           IN  /\ ret'.result.kind = "list"
               /\ Len(rows) = Len(exercises)
               /\ \A i \in 1 .. Len(exercises) :
                     \E k \in 1 .. Len(rows) : rows[k] = exercises[i]
               /\ \A k, l \in 1 .. Len(rows) :
                     k < l => TextLeq(rows[k].name, rows[l].name)

C10_Theorem == [][C10_AddThenStored /\ C10_Listed]_vars

(* get_exercises() has listed, against the order of insertion, an exercise *)
(* added without notes and one added with notes                            *)
C10_Witness ==
    /\ ret.op = "get_exercises"
    /\ ret.args = <<NULL>>
    /\ ret.result.kind = "list"
    /\ Len(ret.result.rows) >= 2
    /\ ret.result.rows[1].id > ret.result.rows[2].id
    /\ ret.result.rows[1].notes = NULL
    /\ ret.result.rows[2].notes = Val("tip")

(* C11: on an open store with its tables created, get_workouts() returns   *)
(* a list holding every stored workout exactly once, in non-increasing     *)
(* order of date, and get_last_workout() returns a stored workout whose    *)
(* date is not before the date of any stored workout; when no workout is   *)
(* stored get_workouts() returns the empty list and get_last_workout()     *)
(* returns None, and neither call raises or returns the value of an error  *)
C11_Workouts ==
    (ret'.op = "get_workouts" /\ con = "open" /\ tables)
        => LET rows == ret'.result.rows
           IN  /\ ret'.result.kind = "list"
               /\ Len(rows) = Len(workouts)
               /\ \A i \in 1 .. Len(workouts) :
                     \E k \in 1 .. Len(rows) : rows[k] = workouts[i]
               /\ \A k, l \in 1 .. Len(rows) :
                     k < l => DayNumber(rows[k].date) >= DayNumber(rows[l].date)
               /\ workouts = <<>> => ret'.result = PyList(<<>>)

C11_LastWorkout ==
    (ret'.op = "get_last_workout" /\ con = "open" /\ tables)
        => IF workouts = <<>>
           THEN ret'.result = PyNone
           ELSE /\ ret'.result.kind = "Row"
                /\ \E i \in 1 .. Len(workouts) :
                      /\ ret'.result.row = workouts[i]
                      /\ \A j \in 1 .. Len(workouts) :
                            DayNumber(workouts[i].date)
                                >= DayNumber(workouts[j].date)

C11_Theorem == [][C11_Workouts /\ C11_LastWorkout]_vars

(* get_last_workout() has returned a workout that was not the last one     *)
(* inserted, out of stored workouts of two different dates                 *)
C11_Witness ==
    /\ ret.op = "get_last_workout"
    /\ ret.result.kind = "Row"
    /\ Len(workouts) >= 2
    /\ ret.result.row.id < Len(workouts)
    /\ \E j \in 1 .. Len(workouts) :
          DayNumber(workouts[j].date) < DayNumber(ret.result.row.date)

----------------------------------------------------------------------------
(* C12: a call of create_tables, at any point and however often repeated,  *)
(* leaves every row of workouts, exercises and performances as it was and  *)
(* keeps the tables that exist; and in the store it leaves behind the      *)
(* constraints still act: exercise names stay unique, every performance    *)
(* references a stored workout and a stored exercise, and the call that    *)
(* follows create_tables is refused with -1, inserting nothing, when it    *)
(* adds an exercise under a stored name or a performance for a workout or  *)
(* an exercise that is not stored                                          *)
C12_RowsKept ==
    ret'.op = "create_tables"
        => /\ workouts' = workouts
           /\ exercises' = exercises
           /\ performances' = performances
           /\ tables => tables'
           /\ con = "open" => (tables' /\ ret'.result = PyNone)

C12_StillEnforced ==
    (ret.op = "create_tables" /\ con = "open")
        => /\ (ret'.op = "add_exercise" /\ NameStored(ret'.args[1]))
                 => (ret'.result = Failed /\ exercises' = exercises)
           /\ ( /\ ret'.op = "add_performance"
                /\ ~WorkoutStored(ret'.args[1]) \/ ~ExerciseStored(ret'.args[2]) )
                 => (ret'.result = Failed /\ performances' = performances)

C12_Theorem ==
    /\ [](UniqueNames /\ ReferencesHold)
    /\ [][C12_RowsKept /\ C12_StillEnforced]_vars

(* create_tables has been called on a store whose three tables all hold    *)
(* rows, and has returned                                                  *)
C12_Witness ==
    /\ ret.op = "create_tables"
    /\ ret.result = PyNone
    /\ Len(workouts) > 0
    /\ Len(exercises) > 0
    /\ Len(performances) > 0

====
